---- MODULE Spec2Model ----
(***************************************************************************)
(* Graph based neutrino reconstruction (neutrino_reco.ipynb).              *)
(*                                                                         *)
(* The NeutrinoReco layer is modelled as a state machine: its persistent   *)
(* state is the two scratch weights vx1, vx2 (shape = batch_size) and the  *)
(* variables of the two optimizers; one evaluation of call() is CallOk     *)
(* (or CallFail), then the unrolled optimizer steps of optimize1 and       *)
(* optimize2, then Finish, which computes the rest of neutrino_reco.       *)
(*                                                                         *)
(* Floating point numbers are modelled on a fixed-point grid: a value is   *)
(* an integer number of 1/SCALE units in -FMAX..FMAX, or one of PInf,      *)
(* NInf, NaN.  The operators below follow IEEE-754 for the special values  *)
(* (NaN propagates, every comparison with NaN is false, x/0 is an          *)
(* infinity, 0/0 and inf-inf and 0*inf are NaN, overflow gives an          *)
(* infinity); finite results are rounded towards zero onto the grid.       *)
(***************************************************************************)
EXTENDS Integers, Sequences, FiniteSets

\* ------------------------------------------------------------------ bounds
\* grid resolution: a value n stands for the number n / SCALE
SCALE == 4
\* largest finite magnitude on the grid (stands for the largest float)
FMAX == 40000
\* batch_size of the layer: the length of the scratch weights vx1, vx2
Capacity == 2

\* --------------------------------------------------------- program constants
\* range(100) in optimize1 / optimize2
STEPS == 100

\* ------------------------------------------------------- number representation
PInf == FMAX + 1
NInf == -(FMAX + 1)
NaN == FMAX + 2

IsNaN(a) == a = NaN
IsInf(a) == a = PInf \/ a = NInf
IsFinite(a) == a >= -FMAX /\ a <= FMAX

AbsI(n) == IF n < 0 THEN -n ELSE n
SgnI(n) == IF n < 0 THEN -1 ELSE 1
\* integer division rounding towards zero
TDiv(n, d) == SgnI(n) * SgnI(d) * (AbsI(n) \div AbsI(d))
\* overflow to the infinities
Norm(n) == IF n > FMAX THEN PInf ELSE IF n < -FMAX THEN NInf ELSE n
\* a whole number on the grid
Real(n) == n * SCALE

RECURSIVE ISqrtBetween(_, _, _)
ISqrtBetween(n, lo, hi) ==
    IF lo >= hi THEN lo
    ELSE LET mid == (lo + hi + 1) \div 2
         IN  IF mid * mid <= n THEN ISqrtBetween(n, mid, hi)
                               ELSE ISqrtBetween(n, lo, mid - 1)
\* floor of the square root of a natural number below 2^20
ISqrt(n) == ISqrtBetween(n, 0, 1023)

Neg(a) == IF IsNaN(a) THEN NaN ELSE -a
Abs(a) == IF IsNaN(a) THEN NaN ELSE AbsI(a)
Add(a, b) ==
    IF IsNaN(a) \/ IsNaN(b) THEN NaN
    ELSE IF IsInf(a) THEN (IF IsInf(b) /\ a # b THEN NaN ELSE a)
    ELSE IF IsInf(b) THEN b
    ELSE Norm(a + b)
Sub(a, b) == Add(a, Neg(b))
Mul(a, b) ==
    IF IsNaN(a) \/ IsNaN(b) THEN NaN
    ELSE IF IsInf(a) \/ IsInf(b)
         THEN (IF a = 0 \/ b = 0 THEN NaN
               ELSE IF SgnI(a) * SgnI(b) > 0 THEN PInf ELSE NInf)
    ELSE Norm(TDiv(a * b, SCALE))
Div(a, b) ==
    IF IsNaN(a) \/ IsNaN(b) THEN NaN
    ELSE IF IsInf(a)
         THEN (IF IsInf(b) THEN NaN
               ELSE IF SgnI(a) * SgnI(b) > 0 THEN PInf ELSE NInf)
    ELSE IF IsInf(b) THEN 0
    ELSE IF b = 0
         THEN (IF a = 0 THEN NaN ELSE IF a > 0 THEN PInf ELSE NInf)
    ELSE Norm(TDiv(a * SCALE, b))
\* x ** 2
Sq(a) == Mul(a, a)
\* x ** 0.5 (pow: NaN for a negative finite base, +inf for both infinities)
Pow05(a) ==
    IF IsNaN(a) THEN NaN
    ELSE IF IsInf(a) THEN PInf
    ELSE IF a < 0 THEN NaN
    ELSE ISqrt(a * SCALE)
\* comparisons: false as soon as an operand is NaN
Le(a, b) == ~IsNaN(a) /\ ~IsNaN(b) /\ a <= b
Ge(a, b) == ~IsNaN(a) /\ ~IsNaN(b) /\ a >= b
Gt(a, b) == ~IsNaN(a) /\ ~IsNaN(b) /\ a > b
\* tf.where on one element
Where(c, a, b) == IF c THEN a ELSE b

One == Real(1)
Two == Real(2)
Four == Real(4)
Half == SCALE \div 2

\* ------------------------------------------------------------- kinematics
\* mc ** 2 / 2
HalfMc2(mc) == Div(Sq(mc), Two)

\* the radicand of calc_vy and its root s before the optional clamp
Radicand(vx, lepx, lepy, mc) ==
    Mul(Mul(HalfMc2(mc), Add(Sq(lepx), Sq(lepy))),
        Add(Mul(Mul(Two, lepx), vx), HalfMc2(mc)))

ClampSUnsafe(s, save) == s
\* if save: s = tf.where(s > 0, s, 0)
ClampS(s, save) == IF save THEN Where(Gt(s, 0), s, 0) ELSE s

Calc_s(vx, lepx, lepy, mc, save) ==
    ClampS(Pow05(Radicand(vx, lepx, lepy, mc)), save)

\* sign is +1 or -1
Calc_vy(vx, lepx, lepy, mc, sign, save) ==
    Div(Add(Add(Mul(Mul(lepx, lepy), vx), Mul(lepy, HalfMc2(mc))),
            Mul(Real(sign), Calc_s(vx, lepx, lepy, mc, save))),
        Sq(lepx))

Shift(vx, vy, metx, mety) == Add(Sq(Sub(metx, vx)), Sq(Sub(mety, vy)))

Get_k(lepx, lepy, vx, vy, mc) ==
    Add(Add(HalfMc2(mc), Mul(lepx, vx)), Mul(lepy, vy))

Get_pt(px, py) == Pow05(Add(Sq(px), Sq(py)))

Get_h(lepx, lepy, metx, mety, mc) ==
    Sq(Div(Mul(Get_pt(lepx, lepy), Get_pt(metx, mety)),
           Get_k(lepx, lepy, metx, mety, mc)))

\* ------------------------------------------------------------ real solution
\* the two analytic roots of neutrino_reco_real
Vzp(lepe, lepx, lepy, lepz, vx, vy, mc) ==
    Mul(Div(Get_k(lepx, lepy, vx, vy, mc), Sq(Get_pt(lepx, lepy))),
        Add(lepz, Mul(lepe, Pow05(Sub(One, Get_h(lepx, lepy, vx, vy, mc))))))
Vzn(lepe, lepx, lepy, lepz, vx, vy, mc) ==
    Mul(Div(Get_k(lepx, lepy, vx, vy, mc), Sq(Get_pt(lepx, lepy))),
        Sub(lepz, Mul(lepe, Pow05(Sub(One, Get_h(lepx, lepy, vx, vy, mc))))))

PickRootLarger(vzp, vzn) == Where(Ge(Abs(vzp), Abs(vzn)), vzp, vzn)
\* vz = tf.where(tf.abs(vzp) <= tf.abs(vzn), vzp, vzn)
PickRoot(vzp, vzn) == Where(Le(Abs(vzp), Abs(vzn)), vzp, vzn)

Neutrino_reco_real(lepe, lepx, lepy, lepz, vx, vy, mc) ==
    <<vx, vy, PickRoot(Vzp(lepe, lepx, lepy, lepz, vx, vy, mc),
                       Vzn(lepe, lepx, lepy, lepz, vx, vy, mc))>>

\* --------------------------------------------------------- complex solution
\* tf.minimum / tf.maximum propagate NaN
CMin(a, b) == IF IsNaN(a) \/ IsNaN(b) THEN NaN ELSE IF a <= b THEN a ELSE b
CMax(a, b) == IF IsNaN(a) \/ IsNaN(b) THEN NaN ELSE IF a >= b THEN a ELSE b
\* tf.clip_by_value(t, lo, hi) = maximum(minimum(t, hi), lo)
Clip_by_value(t, lo, hi) == CMax(CMin(t, hi), lo)

\* constr_val = -(mc ** 2) / (4 * lepx)
Constr_val(lepx, mc) == Div(Neg(Sq(mc)), Mul(Four, lepx))

Vx_unconstrained(vx, lepx, mc) == vx
Vx_constrain(vx, lepx, mc) ==
    Where(Ge(lepx, 0),
          Clip_by_value(vx, Constr_val(lepx, mc), PInf),
          Clip_by_value(vx, NInf, Constr_val(lepx, mc)))

\* the objective of one event: opt calls calc_vy without save
Opt(vx0, lepx, lepy, metx, mety, mc, sign) ==
    Shift(vx0, Calc_vy(vx0, lepx, lepy, mc, sign, FALSE), metx, mety)

\* d opt / d vx0 of one event, as reverse-mode differentiation of Opt gives it:
\*   ds  = 0.5 * R ** (-0.5) * dR/dvx
\*   dvy = (lepx * lepy + sign * ds) / lepx ** 2
\*   g   = -2 * (metx - vx0) - 2 * (mety - vy) * dvy
OptGrad(vx0, lepx, lepy, metx, mety, mc, sign) ==
    LET R   == Radicand(vx0, lepx, lepy, mc)
        dR  == Mul(Mul(HalfMc2(mc), Add(Sq(lepx), Sq(lepy))), Mul(Two, lepx))
        ds  == Mul(Mul(Half, Div(One, Pow05(R))), dR)
        dvy == Div(Add(Mul(lepx, lepy), Mul(Real(sign), ds)), Sq(lepx))
        vy  == Calc_vy(vx0, lepx, lepy, mc, sign, FALSE)
    IN  Sub(Neg(Mul(Two, Sub(metx, vx0))),
            Mul(Mul(Two, Sub(mety, vy)), dvy))

\* ---------------------------------------------------------------- optimizer
\* tf.keras.optimizers.get("Adam"): the update rule of Adam on one element,
\*   m' = b1 * m + (1 - b1) * g,  v' = b2 * v + (1 - b2) * g ** 2,
\*   lr_t = lr * (1 - b2 ** t) ** 0.5 / (1 - b1 ** t),  t = iterations + 1,
\*   var' = var - lr_t * m' / (v' ** 0.5 + eps),
\* with coefficients the grid can represent: lr = 1, b1 = b2 = 1/2, eps = one
\* grid unit.
AdamLr == One
AdamBeta == Half
\* AdamBeta ** t
BetaPow(t) == IF t >= 12 THEN 0 ELSE SCALE \div (2 ^ t)
AdamLrT(t) ==
    Mul(AdamLr, Div(Pow05(Sub(One, BetaPow(t))), Sub(One, BetaPow(t))))
AdamM(m, g) == Add(Mul(AdamBeta, m), Mul(Sub(One, AdamBeta), g))
AdamV(v, g) == Add(Mul(AdamBeta, v), Mul(Sub(One, AdamBeta), Sq(g)))
AdamVar(var, m, v, g, t) ==
    Sub(var, Div(Mul(AdamLrT(t), AdamM(m, g)), Add(Pow05(AdamV(v, g)), 1)))

Slots == 1 .. Capacity
\* the variables of an optimizer: the step counter and the two slots per weight
ZeroOpt == [iterations |-> 0, m |-> [i \in Slots |-> 0], v |-> [i \in Slots |-> 0]]

\* ------------------------------------------------------------------- inputs
\* mass_constraint of the layer (a constructor argument), on the grid
MassConstraint == Real(4)

\* one row [lepe, lepx, lepy, lepz, metx, mety] of the input array
Event(lepe, lepx, lepy, lepz, metx, mety) ==
    [lepe |-> Real(lepe), lepx |-> Real(lepx), lepy |-> Real(lepy),
     lepz |-> Real(lepz), metx |-> Real(metx), mety |-> Real(mety)]

\* the events the batches are made of:
\*  1  h <= 1, two distinct finite roots
\*  2  h > 1, the fit stays finite and reaches the constraint boundary
\*  3  h > 1, the seed metx lies outside the valid half-line
\*  4  lepton mass above the mass constraint
\*  5  lepton along the beam axis (lepx = lepy = 0), h <= 1
Events ==
    << Event(3, 2, 1, 2, 3, 4),
       Event(3, -1, -1, 1, 1, 3),
       Event(3, 2, 1, 1, -3, 3),
       Event(5, 1, 0, 0, 1, 1),
       Event(2, 0, 0, 2, 1, 1) >>
NE == Len(Events)

\* N consecutive events, starting with the k-th
Window(N, k) == [i \in 1 .. N |-> Events[((k + i - 2) % NE) + 1]]
\* the batches a call may be given; those of Capacity + 1 events do not fit
Batches == {Window(N, k) : N \in 1 .. Capacity + 1, k \in 1 .. NE}

\* the values add_weight may have drawn for the scratch weights
InitWeights == {-Half, Half}

\* ------------------------------------------------------------ the layer
\* lepm, with NaN (negative radicand) replaced by zero
Lepm(e) ==
    LET lepm == Pow05(Sub(Sub(Sub(Sq(e.lepe), Sq(e.lepx)), Sq(e.lepy)), Sq(e.lepz)))
    IN  Where(IsNaN(lepm), 0, lepm)

EffMcClamped(e) ==
    LET d == Sub(Sq(MassConstraint), Sq(Lepm(e)))
    IN  Pow05(Where(Gt(d, 0), d, 0))
\* mc = (mc ** 2 - lepm ** 2) ** 0.5
EffMc(e) == Pow05(Sub(Sq(MassConstraint), Sq(Lepm(e))))

ResetNothing(opt) == opt
\* reset_optimizer: every variable of the optimizer is set to zero
Reset_optimizer(opt) ==
    [iterations |-> 0, m |-> [i \in Slots |-> 0], v |-> [i \in Slots |-> 0]]

FitsOneMore(n) == n <= Capacity + 1
\* does a batch of n events fit vx[:n].assign(metx)
Fits(n) == n <= Capacity

SliceKeep(vx, b) == vx
\* self.vx[: tf.shape(metx)[0]].assign(metx)
SliceAssign(vx, b) ==
    [i \in Slots |-> IF i <= Len(b) THEN b[i].metx ELSE vx[i]]

LoopUntilNaN(n, vx) == n < STEPS /\ \A i \in Slots : ~IsNaN(vx[i])
\* for _ in range(100)
LoopContinues(n, vx) == n < STEPS

\* optimizer.minimize(lambda: opt(vx[:batch_size], ...), var_list=[vx]):
\* the gradient is zero beyond the batch
Gradient(vx, b, sign) ==
    [i \in Slots |->
        IF i <= Len(b)
        THEN OptGrad(vx[i], b[i].lepx, b[i].lepy, b[i].metx, b[i].mety,
                     EffMc(b[i]), sign)
        ELSE 0]
Minimize(opt, vx, b, sign) ==
    LET g == Gradient(vx, b, sign)
        t == opt.iterations + 1
    IN  [opt |-> [iterations |-> t,
                  m |-> [i \in Slots |-> AdamM(opt.m[i], g[i])],
                  v |-> [i \in Slots |-> AdamV(opt.v[i], g[i])]],
         vx  |-> [i \in Slots |-> AdamVar(vx[i], opt.m[i], opt.v[i], g[i], t)]]
\* vx[:batch_size].assign(vx_constrain(vx[:batch_size], lepx, mc))
Constrain(vx, b) ==
    [i \in Slots |->
        IF i <= Len(b) THEN Vx_constrain(vx[i], b[i].lepx, EffMc(b[i]))
                       ELSE vx[i]]
\* one iteration of the loop of optimize1 / optimize2
OptimizeStep(opt, vx, b, sign) ==
    LET r == Minimize(opt, vx, b, sign)
    IN  [opt |-> r.opt, vx |-> Constrain(r.vx, b)]

KeepFailed(vx, constr_val) == vx
\* vx = tf.where(tf.math.is_nan(vx), constr_val, vx)
CatchFailed(vx, constr_val) == Where(IsNaN(vx), constr_val, vx)

SelectSwapped(h, real, complex) == Where(Le(h, One), complex, real)
\* tf.where(h <= 1, real, complex)
Select(h, real, complex) == Where(Le(h, One), real, complex)

\* neutrino_reco_complex after the two fits, for one event: every value it
\* computes on the way, and its triple
Complex(e, mc, vx1end, vx2end) ==
    LET constr_val == Constr_val(e.lepx, mc)
        vx1   == CatchFailed(vx1end, constr_val)
        vx2   == CatchFailed(vx2end, constr_val)
        vy1   == Calc_vy(vx1, e.lepx, e.lepy, mc, 1, TRUE)
        vy2   == Calc_vy(vx2, e.lepx, e.lepy, mc, -1, TRUE)
        diff1 == Shift(vx1, vy1, e.metx, e.mety)
        diff2 == Shift(vx2, vy2, e.metx, e.mety)
        vx    == Where(Le(diff1, diff2), vx1, vx2)
        vy    == Where(Le(diff1, diff2), vy1, vy2)
        k     == Get_k(e.lepx, e.lepy, vx, vy, mc)
        vz    == Div(Mul(k, e.lepz), Sq(Get_pt(e.lepx, e.lepy)))
    IN  [vx1 |-> vx1, vx2 |-> vx2,
         s1 |-> Calc_s(vx1, e.lepx, e.lepy, mc, TRUE),
         s2 |-> Calc_s(vx2, e.lepx, e.lepy, mc, TRUE),
         vy1 |-> vy1, vy2 |-> vy2, diff1 |-> diff1, diff2 |-> diff2,
         triple |-> <<vx, vy, vz>>]

\* neutrino_reco for one event, given the results of the two fits
Neutrino_reco(e, vx1end, vx2end) ==
    LET mc      == EffMc(e)
        real    == Neutrino_reco_real(e.lepe, e.lepx, e.lepy, e.lepz,
                                      e.metx, e.mety, mc)
        complex == Complex(e, mc, vx1end, vx2end)
        h       == Get_h(e.lepx, e.lepy, e.metx, e.mety, mc)
    IN  [complex |-> complex, real |-> real, h |-> h,
         triple |-> << Select(h, real[1], complex.triple[1]),
                       Select(h, real[2], complex.triple[2]),
                       Select(h, real[3], complex.triple[3]) >>]

\* ------------------------------------------------------------------- state
VARIABLES
    pc,      \* "idle", "opt1", "opt2", "fin", "done" or "failed"
    batch,   \* the inputs of the current (or last) call
    vx1,     \* self.vx1
    vx2,     \* self.vx2
    opt1,    \* the variables of self.opt1
    opt2,    \* the variables of self.opt2
    n1,      \* iterations of optimize1 done in this call
    n2,      \* iterations of optimize2 done in this call
    obj,     \* per event, the radicand and the root s of calc_vy in the
             \* objective of the last optimizer step
    res      \* per event, what neutrino_reco computed; << >> before it returns

vars == <<pc, batch, vx1, vx2, opt1, opt2, n1, n2, obj, res>>

\* the (vx, vy, vz) arrays a finished call returns
Out == [i \in 1 .. Len(res) |-> res[i].triple]

\* build(): the optimizers have no state yet, the weights hold what add_weight drew
Init ==
    /\ pc = "idle"
    /\ batch = << >>
    /\ \E w \in InitWeights :
          /\ vx1 = [i \in Slots |-> w]
          /\ vx2 = [i \in Slots |-> w]
    /\ opt1 = ZeroOpt
    /\ opt2 = ZeroOpt
    /\ n1 = 0
    /\ n2 = 0
    /\ obj = << >>
    /\ res = << >>

Callable == pc \in {"idle", "done", "failed"}

\* call() up to the first optimizer step: reset_optimizer, the two slice
\* assignments, and the entry of neutrino_reco
CallOk(b) ==
    /\ Callable
    /\ Fits(Len(b))
    /\ batch' = b
    /\ opt1' = Reset_optimizer(opt1)
    /\ opt2' = Reset_optimizer(opt2)
    /\ vx1' = SliceAssign(vx1, b)
    /\ vx2' = SliceAssign(vx2, b)
    /\ n1' = 0
    /\ n2' = 0
    /\ obj' = << >>
    /\ res' = << >>
    /\ pc' = "opt1"

\* call() with more events than the weights hold: the slice assignment raises.
\* The resets of the optimizer variables are not ordered with the failing
\* assignment (they touch other variables), so each may or may not have run.
CallFail(b) ==
    /\ Callable
    /\ ~Fits(Len(b))
    /\ batch' = b
    /\ opt1' \in {opt1, Reset_optimizer(opt1)}
    /\ opt2' \in {opt2, Reset_optimizer(opt2)}
    /\ n1' = 0
    /\ n2' = 0
    /\ obj' = << >>
    /\ res' = << >>
    /\ pc' = "failed"
    /\ UNCHANGED <<vx1, vx2>>

\* what the objective of a step evaluates, per event
Objective(vx, b) ==
    [i \in 1 .. Len(b) |->
        [rad |-> Radicand(vx[i], b[i].lepx, b[i].lepy, EffMc(b[i])),
         s   |-> Calc_s(vx[i], b[i].lepx, b[i].lepy, EffMc(b[i]), FALSE)]]

\* one iteration of optimize1 (sign = +1)
Optimize1Step ==
    /\ pc = "opt1"
    /\ LoopContinues(n1, vx1)
    /\ LET r == OptimizeStep(opt1, vx1, batch, 1)
       IN  /\ opt1' = r.opt
           /\ vx1' = r.vx
           /\ pc' = IF LoopContinues(n1 + 1, r.vx) THEN "opt1" ELSE "opt2"
    /\ n1' = n1 + 1
    /\ obj' = Objective(vx1, batch)
    /\ UNCHANGED <<batch, vx2, opt2, n2, res>>

\* one iteration of optimize2 (sign = -1)
Optimize2Step ==
    /\ pc = "opt2"
    /\ LoopContinues(n2, vx2)
    /\ LET r == OptimizeStep(opt2, vx2, batch, -1)
       IN  /\ opt2' = r.opt
           /\ vx2' = r.vx
           /\ pc' = IF LoopContinues(n2 + 1, r.vx) THEN "opt2" ELSE "fin"
    /\ n2' = n2 + 1
    /\ obj' = Objective(vx2, batch)
    /\ UNCHANGED <<batch, vx1, opt1, n1, res>>

\* the rest of neutrino_reco_complex and neutrino_reco, and the return
Finish ==
    /\ pc = "fin"
    /\ res' = [i \in 1 .. Len(batch) |-> Neutrino_reco(batch[i], vx1[i], vx2[i])]
    /\ pc' = "done"
    /\ UNCHANGED <<batch, vx1, vx2, opt1, opt2, n1, n2, obj>>

Next ==
    \/ \E b \in Batches : CallOk(b)
    \/ \E b \in Batches : CallFail(b)
    \/ Optimize1Step
    \/ Optimize2Step
    \/ Finish

Spec == Init /\ [][Next]_vars

\* The loops and the return are straight-line code: an iteration of an
\* unrolled loop is followed by the next one, and the end of the second loop
\* by the return. Every step of Next from pc = "opt1" is an Optimize1Step and
\* raises n1 by one (likewise n2 and the return), so these are the steps of
\* Optimize1Step, Optimize2Step and Finish seen through pc, n1 and n2.
Iterate1 == pc = "opt1" /\ n1' = n1 + 1
Iterate2 == pc = "opt2" /\ n2' = n2 + 1
Return == pc = "fin" /\ pc' = "done"

FairSpec ==
    Spec /\ WF_n1(Iterate1) /\ WF_n2(Iterate2) /\ WF_pc(Return)

\* ------------------------------------------------------------ properties
\* h = get_h(lepx, lepy, metx, mety, mc) with the effective mass constraint
HOf(e) == Get_h(e.lepx, e.lepy, e.metx, e.mety, EffMc(e))
RealOf(e) ==
    Neutrino_reco_real(e.lepe, e.lepx, e.lepy, e.lepz, e.metx, e.mety, EffMc(e))
VzpOf(e) == Vzp(e.lepe, e.lepx, e.lepy, e.lepz, e.metx, e.mety, EffMc(e))
VznOf(e) == Vzn(e.lepe, e.lepx, e.lepy, e.lepz, e.metx, e.mety, EffMc(e))
Events_ == 1 .. Len(batch)
AllNaN == <<NaN, NaN, NaN>>
\* a slot beyond the batch holds a value an earlier, larger batch left there
StaleTail == \E i \in Slots : i > Len(batch) /\ vx1[i] \notin InitWeights

\* C1: when a call has returned, every event's triple is the analytic
\* solver's triple if h <= 1 and the numerical solver's triple otherwise, as
\* a whole, and there is one triple per event.
BranchPartition ==
    pc = "done" =>
        /\ Len(Out) = Len(batch)
        /\ \A i \in Events_ :
              /\ Le(HOf(batch[i]), One) => Out[i] = RealOf(batch[i])
              /\ ~Le(HOf(batch[i]), One) =>
                     Out[i] = Complex(batch[i], EffMc(batch[i]), vx1[i], vx2[i]).triple
\* a returned batch with an event of each kind, whose two triples differ
BothBranchesTaken ==
    /\ pc = "done"
    /\ \E i, j \in Events_ :
          /\ Le(HOf(batch[i]), One)
          /\ Out[i] # res[i].complex.triple
          /\ ~Le(HOf(batch[j]), One)
          /\ Out[j] # res[j].real

\* the root picked is one of the two and no larger in magnitude than the other
SmallerRoot(vz, e) ==
    \/ vz = VzpOf(e) /\ Le(Abs(vz), Abs(VznOf(e)))
    \/ vz = VznOf(e) /\ Le(Abs(vz), Abs(VzpOf(e)))

\* C2 as stated: for every event with h <= 1 the call returns (vx, vy) =
\* (metx, mety) and vz the analytic root of smaller absolute value.
RealIsSmallerRoot ==
    pc = "done" =>
        \A i \in Events_ :
            Le(HOf(batch[i]), One) =>
                /\ Out[i][1] = batch[i].metx
                /\ Out[i][2] = batch[i].mety
                /\ SmallerRoot(Out[i][3], batch[i])
\* C2 amended: for every event with h <= 1 the call returns (vx, vy) =
\* (metx, mety) and vz = vzp if |vzp| <= |vzn|, else vzn; this is the root of
\* smaller absolute value whenever neither root is NaN.
RealIsSmallerRootUnlessNaN ==
    pc = "done" =>
        \A i \in Events_ :
            Le(HOf(batch[i]), One) =>
                /\ Out[i][1] = batch[i].metx
                /\ Out[i][2] = batch[i].mety
                /\ Out[i][3] = Where(Le(Abs(VzpOf(batch[i])), Abs(VznOf(batch[i]))),
                                     VzpOf(batch[i]), VznOf(batch[i]))
                /\ (~IsNaN(VzpOf(batch[i])) /\ ~IsNaN(VznOf(batch[i])))
                       => SmallerRoot(Out[i][3], batch[i])
\* a returned event with h <= 1 and two finite roots of different magnitude
RealRootPicked ==
    /\ pc = "done"
    /\ \E i \in Events_ :
          /\ Le(HOf(batch[i]), One)
          /\ IsFinite(VzpOf(batch[i]))
          /\ IsFinite(VznOf(batch[i]))
          /\ Abs(VzpOf(batch[i])) # Abs(VznOf(batch[i]))

\* a vector of numbers, one per slot
IsVector(x) == x \in [Slots -> Int]
\* optimize1 / optimize2 as a whole: k passes through the loop, from the loop
\* state st = [opt, vx, n] on; the passes are split in halves, st is computed
\* before the second half starts
RECURSIVE RunSteps(_, _, _, _)
RunSteps(st, b, sign, k) ==
    IF k = 0 THEN st
    ELSE IF k = 1
    THEN IF LoopContinues(st.n, st.vx)
         THEN LET r == OptimizeStep(st.opt, st.vx, b, sign)
              IN  [opt |-> r.opt, vx |-> r.vx, n |-> st.n + 1]
         ELSE st
    ELSE LET half == RunSteps(st, b, sign, k \div 2)
         IN  IF IsVector(half.vx) /\ IsVector(half.opt.m) /\ IsVector(half.opt.v)
             THEN RunSteps(half, b, sign, k - k \div 2)
             ELSE half
RunLoop(opt, vx, b, sign) ==
    RunSteps([opt |-> opt, vx |-> vx, n |-> 0], b, sign, STEPS).vx
\* what a freshly built layer returns for batch b as its first call
FreshOut(b) ==
    LET seed == [i \in Slots |-> IF i <= Len(b) THEN b[i].metx ELSE 0]
        end1 == RunLoop(ZeroOpt, seed, b, 1)
        end2 == RunLoop(ZeroOpt, seed, b, -1)
    IN  [i \in 1 .. Len(b) |-> Neutrino_reco(b[i], end1[i], end2[i]).triple]

\* C3: whatever was evaluated on the instance before, a call returns for its
\* batch what a fresh instance returns for it; so two calls with the same
\* batch return the same.
SameBatchSameOut == pc = "done" => Out = FreshOut(batch)
\* a call has returned on an instance that an earlier, larger batch had used
ReturnedAfterOtherBatch == pc = "done" /\ StaleTail

\* C4 as stated: a call with N <= Capacity does not fail, a call with
\* N > Capacity fails, and the failing call leaves the scratch weights and the
\* optimizer variables unchanged.
FailLeavesAllUnchanged ==
    [][ /\ (Callable /\ pc' \in {"opt1", "failed"})
            => (pc' = "failed" <=> Len(batch') > Capacity)
        /\ pc' = "failed"
            => /\ vx1' = vx1 /\ vx2' = vx2
               /\ opt1' = opt1 /\ opt2' = opt2 ]_vars
\* C4 amended: a call with N <= Capacity does not fail, a call with
\* N > Capacity fails; the failing call takes no optimizer step, returns
\* nothing and leaves the scratch weights unchanged, while each optimizer's
\* variables are either unchanged or already reset to zero.
FailLeavesWeightsUnchanged ==
    [][ /\ (Callable /\ pc' \in {"opt1", "failed"})
            => (pc' = "failed" <=> Len(batch') > Capacity)
        /\ pc' = "failed"
            => /\ vx1' = vx1 /\ vx2' = vx2
               /\ opt1' \in {opt1, ZeroOpt} /\ opt2' \in {opt2, ZeroOpt}
               /\ n1' = 0 /\ n2' = 0 /\ res' = << >> ]_vars
\* a batch of Capacity + 1 events has failed on an instance used before
FailedAtCapacityPlusOne ==
    /\ pc = "failed"
    /\ Len(batch) = Capacity + 1
    /\ \E i \in Slots : vx1[i] \notin InitWeights

\* C5: a call returns one triple per event, and the triple of an event whose
\* lepton mass exceeds the mass constraint is NaN in all three components.
HeavyLeptonAllNaN ==
    pc = "done" =>
        /\ Len(Out) = Len(batch)
        /\ \A i \in Events_ :
              Gt(Lepm(batch[i]), MassConstraint) => Out[i] = AllNaN
\* a returned batch with such an event next to an event with a finite triple
HeavyLeptonInBatch ==
    /\ pc = "done"
    /\ \E i, j \in Events_ :
          /\ Gt(Lepm(batch[i]), MassConstraint)
          /\ \A c \in 1 .. 3 : IsFinite(Out[j][c])

\* C6: as long as a sign branch has taken no step in the current call, its
\* iterate is the batch's metx on the batch's slots and all variables of its
\* optimizer are zero.
SeededBeforeFirstStep ==
    pc \in {"opt1", "opt2"} =>
        /\ n1 = 0 => /\ opt1 = ZeroOpt
                     /\ \A i \in Events_ : vx1[i] = batch[i].metx
        /\ n2 = 0 => /\ opt2 = ZeroOpt
                     /\ \A i \in Events_ : vx2[i] = batch[i].metx
\* the second branch is about to take its first step, in a later call
SecondBranchStarts ==
    /\ pc = "opt2" /\ n1 = STEPS /\ n2 = 0
    /\ opt1 # ZeroOpt
    /\ StaleTail

\* vx lies in the valid half-line of an event with lepton px lepx
InHalfLine(vx, lepx, mc) ==
    IF Ge(lepx, 0) THEN Ge(vx, Constr_val(lepx, mc))
                   ELSE Le(vx, Constr_val(lepx, mc))

\* C7 as stated: once a sign branch has taken a step in the current call,
\* its iterate of every event lies in the event's valid half-line.
IterateInHalfLine ==
    \A i \in Events_ :
        /\ n1 > 0 => InHalfLine(vx1[i], batch[i].lepx, EffMc(batch[i]))
        /\ n2 > 0 => InHalfLine(vx2[i], batch[i].lepx, EffMc(batch[i]))
\* C7 amended: once a sign branch has taken a step in the current call, its
\* iterate of every event is NaN or lies in the event's valid half-line.
IterateNaNOrInHalfLine ==
    \A i \in Events_ :
        /\ n1 > 0 => \/ IsNaN(vx1[i])
                     \/ InHalfLine(vx1[i], batch[i].lepx, EffMc(batch[i]))
        /\ n2 > 0 => \/ IsNaN(vx2[i])
                     \/ InHalfLine(vx2[i], batch[i].lepx, EffMc(batch[i]))
\* a step's update left the half-line and the projection put the iterate on
\* its boundary
ProjectedOntoBoundary ==
    \E i \in Events_ :
        /\ n2 > 0
        /\ IsFinite(vx2[i])
        /\ vx2[i] = Constr_val(batch[i].lepx, EffMc(batch[i]))
        /\ vx2[i] # batch[i].metx

\* C8 as stated: the vx of either sign branch from which vy is computed is
\* finite for every event with lepx # 0 (the inputs are finite).
FitResultFinite ==
    pc = "done" =>
        \A i \in Events_ :
            batch[i].lepx # 0 =>
                /\ IsFinite(res[i].complex.vx1)
                /\ IsFinite(res[i].complex.vx2)
\* C8 amended: the vx of either sign branch from which vy is computed is the
\* end iterate with NaN replaced by the boundary value; it is not NaN for an
\* event with lepx # 0 whose effective mass constraint is not NaN.
FitResultNotNaN ==
    pc = "done" =>
        \A i \in Events_ :
            LET c == Constr_val(batch[i].lepx, EffMc(batch[i]))
            IN  /\ res[i].complex.vx1 = Where(IsNaN(vx1[i]), c, vx1[i])
                /\ res[i].complex.vx2 = Where(IsNaN(vx2[i]), c, vx2[i])
                /\ (batch[i].lepx # 0 /\ ~IsNaN(EffMc(batch[i])))
                       => /\ ~IsNaN(res[i].complex.vx1)
                          /\ ~IsNaN(res[i].complex.vx2)
\* a fit ended NaN and vy was computed from the finite boundary value
FailedFitReplaced ==
    /\ pc = "done"
    /\ \E i \in Events_ :
          /\ IsNaN(vx1[i])
          /\ IsFinite(res[i].complex.vx1)
          /\ res[i].complex.vx1 = Constr_val(batch[i].lepx, EffMc(batch[i]))

\* C9 as stated: no evaluation of calc_vy in the numeric branch takes the
\* root of a negative radicand unclamped; in the objective of an optimizer
\* step a negative radicand gives s = 0.
ObjectiveClamped ==
    \A i \in 1 .. Len(obj) :
        (IsFinite(obj[i].rad) /\ obj[i].rad < 0) => obj[i].s = 0
\* C9 amended: the final vy of both sign branches is computed with the
\* clamp, so its s is a number >= 0; the objective of an optimizer step is
\* computed without it, so a negative radicand there gives s = NaN.
OnlyFinalVyClamped ==
    /\ pc = "done" =>
          \A i \in Events_ :
              /\ Ge(res[i].complex.s1, 0)
              /\ Ge(res[i].complex.s2, 0)
    /\ \A i \in 1 .. Len(obj) :
          (IsFinite(obj[i].rad) /\ obj[i].rad < 0) => IsNaN(obj[i].s)
\* the clamp acted in a final vy: the radicand is not >= 0 and s is 0
FinalVyClampActed ==
    /\ pc = "done"
    /\ \E i \in Events_ :
          /\ ~Ge(Radicand(res[i].complex.vx1, batch[i].lepx, batch[i].lepy,
                          EffMc(batch[i])), 0)
          /\ res[i].complex.s1 = 0

\* C10: every call that has started its fits returns, and when it returns
\* both sign branches have taken exactly STEPS steps.
FixedBudgetThenReturn ==
    (pc \in {"opt1", "opt2", "fin"}) ~> (pc = "done" /\ n1 = STEPS /\ n2 = STEPS)
\* a call returned after the full budget although one event's iterate was
\* NaN from the first step on and another's stayed finite
ReturnedWithNaNAndFinite ==
    /\ pc = "done" /\ n1 = STEPS /\ n2 = STEPS
    /\ \E i, j \in Events_ : IsNaN(vx1[i]) /\ IsFinite(vx1[j])

====
